---- MODULE Spec2Model ----
(***************************************************************************)
(* A model of ansible-interactive.py: the playbook structure resolver      *)
(* (find_plays_in_playbook), the variable extractor                        *)
(* (find_variables_in_playbook), the host/group selection                  *)
(* (propose_multiple_options, select_hosts_and_groups), the prompting      *)
(* primitive propose_options, the variable bindings                        *)
(* (define_variables_values), the command assembly (build_ansible_command) *)
(* and the top-level run of the tool with its exit statuses.               *)
(***************************************************************************)
EXTENDS Integers, Sequences, FiniteSets, TLC

VARIABLES
    \* ---- positions
    pc,         \* position of the main program
    ppc,        \* position of the resolver: idle, call, run, done, overflow
    hpc,        \* position of select_hosts_and_groups: idle, read, prompt, returned, IndexError
    \* ---- document store and import resolver
    files,      \* the set of paths for which os.path.isfile is true
    docs,       \* path -> text of the document, a sequence of lines
    stack,      \* the call stack of find_plays_in_playbook, innermost frame last
    result,     \* the value returned by the outermost find_plays_in_playbook
    warnings,   \* the warnings printed so far, as <<parent path, reference>>
    root,       \* the path of the selected playbook
    \* ---- variable extractor
    segs,       \* the text given to find_variables_in_playbook, as its pieces
    variables,  \* the list find_variables_in_playbook returned last
    baseline,   \* the list it returned for the first text
    \* ---- host and group selection
    inventory,  \* the lines of the inventory file
    ansible_hosts_entries,  \* the entries read from it
    choice,     \* the line that ended the prompt, as its comma-separated items
    invalid,    \* how many times 'Invalid choice' was printed for the line entered last
    groups,     \* the groups returned
    hosts,      \* the hosts returned
    \* ---- the run of the tool
    path_to_playbooks,      \* the directory given: valid, empty (no *.yml in it), invalid
    hfiles,                 \* the inventory paths for which os.path.isfile is true
    ansible_hosts_file,     \* the local of check_hosts_file
    ANSIBLE_HOSTS_LOCATION, \* the global holding the inventory path
    found_playbooks,        \* the paths select_playbook offers, sorted by name
    chosen_var,             \* the variable chosen last in define_variables_values
    defined_variables,      \* the bindings, as <<name, value>> in insertion order
    launched,               \* whether the external process was started
    interruptedAt,          \* the prompt at which the operator interrupted, if any
    ending,                 \* how the run ended
    exitCode,               \* the exit status of the process
    command,                \* the argument list build_ansible_command assembles
    answers,                \* what ask returned for the questions after the selection
    entered,                \* the lines accepted at the variable prompt, with the values
    \* ---- one call of propose_options
    po_options,             \* its argument options
    po_propose_all,         \* its argument propose_all
    po_allow_none,          \* its argument allow_none
    po_choice,              \* the line entered last at its prompt
    po_return,              \* the value it returned
    po_pc                   \* its position: prompt, invalid, returned, IndexError

playsVars == <<files, docs, stack, result, warnings, ppc, root>>
extractVars == <<segs, variables, baseline>>
hostVars == <<inventory, ansible_hosts_entries, hpc, choice, invalid, groups, hosts>>
runVars == <<pc, path_to_playbooks, hfiles, ansible_hosts_file, ANSIBLE_HOSTS_LOCATION,
             found_playbooks, chosen_var, defined_variables, launched, interruptedAt,
             ending, exitCode, command, answers, entered>>
optVars == <<po_options, po_propose_all, po_allow_none, po_choice, po_return, po_pc>>

vars == <<runVars, hostVars, playsVars, extractVars, optVars>>

Null == "null"

\* ------------------------------------------------------------------------
\* Bounds of the model
\* ------------------------------------------------------------------------
\* Total number of lines over all documents of the store.
MaxLines == 4
\* The same, for the stores on which termination is checked.
MaxCycleLines == 3
\* Depth at which the interpreter gives up a recursion that does not end.
MaxDepth == 4
\* Number of pieces (template expressions, plain text) of a scanned text.
MaxSegs == 3
\* Number of lines of the inventory file.
MaxEntries == 3
\* Number of comma-separated items of a line entered at the selection prompt.
MaxItems == 2
\* Lines of the documents, lines of the inventory and pieces of the selected
\* playbook's text, all together, in a run of the whole tool.
RunSize == 1
\* Number of variable choices followed in one call of define_variables_values.
MaxBindings == 3
\* Number of groups and hosts given to build_ansible_command.
MaxSelected == 2
\* Number of options given to propose_options.
MaxOptions == 3

\* ------------------------------------------------------------------------
\* Documents
\* ------------------------------------------------------------------------
\* A path is the sequence of its components; /p/a.yml is <<"p", "a.yml">>.
RootPath == <<"p", "a.yml">>
Paths == {<<"p", "a.yml">>, <<"p", "b.yml">>, <<"p", "c.yml">>}
PathSeq == <<<<"p", "a.yml">>, <<"p", "b.yml">>, <<"p", "c.yml">>>>

\* A line of a document: whether it starts with white space (a task of a play
\* is indented, a play is not), the key after "- ", and the rest of the line.
Line(indent, key, arg) == [indent |-> indent, key |-> key, arg |-> arg]
Lines ==
    { Line(FALSE, "name", n) : n \in {"Deploy", "Configure"} }
    \cup { Line(FALSE, "import_playbook", r) : r \in {"a.yml", "b.yml", "c.yml"} }
    \cup { Line(TRUE, "name", "Deploy") }

\* re.findall(PLAY_NAME_PATTERN, text): "^-\s+name[:\s]+(.+)$" matches a line
\* that starts with "-" in column 0 and has the key name; the group is the rest.
MatchesPlayName(l) == ~l.indent /\ l.key = "name"
\* re.findall(IMPORT_PATTERN, text): "^-\s+import_playbook[:\s]+(.+)$".
MatchesImport(l) == ~l.indent /\ l.key = "import_playbook"

\* re.findall: the groups of the matching lines, in the order of the text
RECURSIVE FindPlays(_)
FindPlays(text) ==
    IF text = <<>> THEN <<>>
    ELSE (IF MatchesPlayName(Head(text)) THEN <<Head(text).arg>> ELSE <<>>)
            \o FindPlays(Tail(text))
RECURSIVE FindImports(_)
FindImports(text) ==
    IF text = <<>> THEN <<>>
    ELSE (IF MatchesImport(Head(text)) THEN <<Head(text).arg>> ELSE <<>>)
            \o FindImports(Tail(text))

\* os.path.dirname and os.path.join on component sequences.
Dirname(path) == SubSeq(path, 1, Len(path) - 1)
Join(dir, ref) == dir \o <<ref>>
ImportedPath(parent, ref) == Join(Dirname(parent), ref)

\* os.path.isfile(imported_playbook_path)
IsFile(path) == path \in files

\* (a resolver that puts the plays of an import before those it has)
AddPlays_Prepend(plays, sub) == sub \o plays
\* (a resolver that keeps one occurrence of each name)
RECURSIVE AddPlays_Dedup(_, _)
AddPlays_Dedup(plays, sub) ==
    IF sub = <<>> THEN plays
    ELSE AddPlays_Dedup(IF \E k \in 1..Len(plays) : plays[k] = Head(sub)
                        THEN plays ELSE Append(plays, Head(sub)), Tail(sub))
\* plays += find_plays_in_playbook(...)
AddPlays(plays, sub) == plays \o sub

\* the frame of one call of find_plays_in_playbook
NewFrame(path, text) ==
    [path |-> path, plays |-> FindPlays(text), imports |-> FindImports(text), i |-> 1]

\* (a resolver that leaves the loop at the first import that is no file)
AfterWarning_Break(f) == [f EXCEPT !.i = Len(f.imports) + 1]
\* `continue` after the warning: the loop goes on with the next import
AfterWarning(f) == [f EXCEPT !.i = @ + 1]

\* (a resolver that skips a document it is already resolving)
Recurse_Guarded(stk, target, text) ==
    IF \E k \in 1..Len(stk) : stk[k].path = target
    THEN [stk EXCEPT ![Len(stk)] = [@ EXCEPT !.i = @ + 1]]
    ELSE Append(stk, NewFrame(target, text))
\* find_plays_in_playbook(imported_playbook_path, imported_playbook_yaml_string)
Recurse(stk, target, text) == Append(stk, NewFrame(target, text))

Top == stack[Len(stack)]
SetTop(f) == [stack EXCEPT ![Len(stack)] = f]
AtImport == ppc = "run" /\ stack # <<>> /\ Top.i <= Len(Top.imports)
CurrentRef == Top.imports[Top.i]
CurrentTarget == ImportedPath(Top.path, CurrentRef)

\* find_plays_in_playbook(selected_playbook_path, yaml_string) is called
PlaysCall ==
    /\ ppc = "call"
    /\ stack' = <<NewFrame(root, docs[root])>>
    /\ ppc' = "run"
    /\ UNCHANGED <<optVars, files, docs, result, warnings, root, extractVars, hostVars, runVars>>

\* an import that is no file: print the warning and continue
PlaysWarn ==
    /\ AtImport
    /\ ~IsFile(CurrentTarget)
    /\ warnings' = Append(warnings, <<Top.path, CurrentRef>>)
    /\ stack' = SetTop(AfterWarning(Top))
    /\ UNCHANGED <<optVars, files, docs, result, ppc, root, extractVars, hostVars, runVars>>

\* an import that is a file: read it and recurse
PlaysDescend ==
    /\ AtImport
    /\ IsFile(CurrentTarget)
    /\ Len(stack) < MaxDepth
    /\ stack' = Recurse(stack, CurrentTarget, docs[CurrentTarget])
    /\ UNCHANGED <<optVars, files, docs, result, warnings, ppc, root, extractVars, hostVars, runVars>>

\* the recursion has no guard: at the interpreter's limit the call is abandoned
PlaysOverflow ==
    /\ AtImport
    /\ IsFile(CurrentTarget)
    /\ Len(stack) >= MaxDepth
    /\ ppc' = "overflow"
    /\ UNCHANGED <<optVars, files, docs, stack, result, warnings, root, extractVars, hostVars, runVars>>

\* return plays: to the calling frame, or to the caller of the outermost call
PlaysReturn ==
    /\ ppc = "run" /\ stack # <<>>
    /\ Top.i > Len(Top.imports)
    /\ IF Len(stack) = 1
       THEN /\ result' = Top.plays
            /\ stack' = <<>>
            /\ ppc' = "done"
       ELSE LET caller == stack[Len(stack) - 1]
                popped == SubSeq(stack, 1, Len(stack) - 1)
            IN /\ stack' = [popped EXCEPT ![Len(popped)] =
                              [caller EXCEPT !.plays = AddPlays(caller.plays, Top.plays),
                                             !.i = @ + 1]]
               /\ UNCHANGED <<result, ppc>>
    /\ UNCHANGED <<optVars, files, docs, warnings, root, extractVars, hostVars, runVars>>

PlaysNext == PlaysCall \/ PlaysWarn \/ PlaysDescend \/ PlaysOverflow \/ PlaysReturn

\* Every store with at most n lines in all: the root always exists, a
\* path that is no file has no text.
Texts(n) == UNION { [1..k -> Lines] : k \in 0..n }
StoresOver(fileSets, n) ==
    \E fs \in fileSets :
      /\ RootPath \in fs
      /\ files = fs
      /\ \E ta \in Texts(n) :
         \E tb \in Texts(IF PathSeq[2] \in fs THEN n - Len(ta) ELSE 0) :
         \E tc \in Texts(IF PathSeq[3] \in fs THEN n - Len(ta) - Len(tb) ELSE 0) :
            docs = (PathSeq[1] :> ta) @@ (PathSeq[2] :> tb) @@ (PathSeq[3] :> tc)
StoreInit(n) == StoresOver(SUBSET Paths, n)
TotalLines == Len(docs[PathSeq[1]]) + Len(docs[PathSeq[2]]) + Len(docs[PathSeq[3]])

\* ------------------------------------------------------------------------
\* The import graph of a store, for stating the resolver's properties
\* ------------------------------------------------------------------------
\* The paths a document's import declarations resolve to, in declaration order.
Targets(d, p) ==
    LET refs == FindImports(d[p])
    IN [k \in 1..Len(refs) |-> ImportedPath(p, refs[k])]
\* Those among them that are files.
RECURSIVE SelectFiles(_)
SelectFiles(ts) ==
    IF ts = <<>> THEN <<>>
    ELSE IF IsFile(Head(ts)) THEN <<Head(ts)>> \o SelectFiles(Tail(ts))
         ELSE SelectFiles(Tail(ts))
Children(d, p) == SelectFiles(Targets(d, p))
Range(s) == { s[k] : k \in 1..Len(s) }

\* Documents reachable from p over resolvable imports in at most n steps.
RECURSIVE ReachIn(_, _, _)
ReachIn(d, ps, n) ==
    IF n = 0 THEN ps
    ELSE ReachIn(d, ps \cup UNION { Range(Children(d, q)) : q \in ps }, n - 1)
Reachable(d, p) == ReachIn(d, {p}, Cardinality(Paths))
OnCycle(d, p) ==
    p \in ReachIn(d, Range(Children(d, p)), Cardinality(Paths))
Acyclic(d) == \A p \in Reachable(d, root) : ~OnCycle(d, p)
AllResolve(d) ==
    \A p \in Reachable(d, root) : \A t \in Range(Targets(d, p)) : IsFile(t)

\* The depth-first pre-order sequence of the plays of an acyclic store.
RECURSIVE PreOrder(_, _)
RECURSIVE PreOrderAll(_, _)
PreOrder(d, p) == FindPlays(d[p]) \o PreOrderAll(d, Children(d, p))
PreOrderAll(d, ps) ==
    IF ps = <<>> THEN <<>> ELSE PreOrder(d, Head(ps)) \o PreOrderAll(d, Tail(ps))

\* The number of import paths from p to q, one per chain of import declarations.
RECURSIVE NumPaths(_, _, _)
RECURSIVE NumPathsAll(_, _, _)
NumPaths(d, p, q) == (IF p = q THEN 1 ELSE 0) + NumPathsAll(d, Children(d, p), q)
NumPathsAll(d, ps, q) ==
    IF ps = <<>> THEN 0 ELSE NumPaths(d, Head(ps), q) + NumPathsAll(d, Tail(ps), q)

RECURSIVE Count(_, _)
Count(x, s) ==
    IF s = <<>> THEN 0 ELSE (IF Head(s) = x THEN 1 ELSE 0) + Count(x, Tail(s))
RECURSIVE Sum(_, _)
Sum(f, S) ==
    IF S = {} THEN 0 ELSE LET x == CHOOSE y \in S : TRUE IN f[x] + Sum(f, S \ {x})

PlayNames == { l.arg : l \in { m \in Lines : MatchesPlayName(m) } }
ImportRefs == { l.arg : l \in { m \in Lines : MatchesImport(m) } }

\* The store with every import declaration that resolves to no file removed.
RECURSIVE DropUnresolved(_, _)
DropUnresolved(p, text) ==
    IF text = <<>> THEN <<>>
    ELSE LET l == Head(text)
             rest == DropUnresolved(p, Tail(text))
         IN IF MatchesImport(l) /\ ~IsFile(ImportedPath(p, l.arg)) THEN rest
            ELSE <<l>> \o rest
WithoutUnresolved == [p \in Paths |-> DropUnresolved(p, docs[p])]
Unresolved(p) ==
    { r \in Range(FindImports(docs[p])) : ~IsFile(ImportedPath(p, r)) }

\* ------------------------------------------------------------------------
\* Text as characters
\* ------------------------------------------------------------------------
\* A string is the sequence of its characters; strings compare as in Python,
\* by the code points of their characters.
Code ==
    [c \in {" ", "\n", "-", ".", "0", "1", "2", "[", "]", "a", "b", "d", "e",
            "f", "l", "r", "s", "t", "u", "v", "w", "x", "{", "|", "}"} |->
        CASE c = "\n" -> 10 [] c = " " -> 32 [] c = "-" -> 45 [] c = "." -> 46
          [] c = "0" -> 48 [] c = "1" -> 49 [] c = "2" -> 50
          [] c = "[" -> 91 [] c = "]" -> 93
          [] c = "a" -> 97 [] c = "b" -> 98 [] c = "d" -> 100 [] c = "e" -> 101
          [] c = "f" -> 102 [] c = "l" -> 108 [] c = "r" -> 114 [] c = "s" -> 115
          [] c = "t" -> 116 [] c = "u" -> 117 [] c = "v" -> 118 [] c = "w" -> 119
          [] c = "x" -> 120 [] c = "{" -> 123 [] c = "|" -> 124 [] c = "}" -> 125]

RECURSIVE StrLess(_, _)
StrLess(x, y) ==
    IF y = <<>> THEN FALSE
    ELSE IF x = <<>> THEN TRUE
    ELSE IF Head(x) = Head(y) THEN StrLess(Tail(x), Tail(y))
    ELSE Code[Head(x)] < Code[Head(y)]

\* list.sort() on a list of strings
RECURSIVE Insert(_, _)
Insert(x, s) ==
    IF s = <<>> THEN <<x>>
    ELSE IF StrLess(Head(s), x) \/ Head(s) = x THEN <<Head(s)>> \o Insert(x, Tail(s))
    ELSE <<x>> \o s
RECURSIVE Sort(_)
Sort(s) == IF s = <<>> THEN <<>> ELSE Insert(Head(s), Sort(Tail(s)))

\* list(set(xs)): one element for each distinct value, in no particular order
\* (the sort that follows makes the order immaterial)
RECURSIVE ListOfSet(_)
ListOfSet(xs) ==
    IF xs = <<>> THEN <<>>
    ELSE LET rest == ListOfSet(Tail(xs))
         IN IF \E k \in 1..Len(rest) : rest[k] = Head(xs) THEN rest
            ELSE <<Head(xs)>> \o rest

\* ------------------------------------------------------------------------
\* Variable extractor
\* ------------------------------------------------------------------------
IsSpace(c) == c \in {" ", "\n"}

\* \s* from position i: the first position that holds no white space
RECURSIVE SkipSpace(_, _)
SkipSpace(t, i) ==
    IF i <= Len(t) /\ IsSpace(t[i]) THEN SkipSpace(t, i + 1) ELSE i
\* [^}\s]+ from position i: the first position that holds "}" or white space
RECURSIVE SkipName(_, _)
SkipName(t, i) ==
    IF i <= Len(t) /\ ~IsSpace(t[i]) /\ t[i] # "}" THEN SkipName(t, i + 1) ELSE i

\* VARIABLES_PATTERN = "{{\s*([^}\s]+)" tried at position i of t
MatchVariable(t, i) ==
    IF i + 1 <= Len(t) /\ t[i] = "{" /\ t[i + 1] = "{"
    THEN LET from == SkipSpace(t, i + 2)
             to == SkipName(t, from)
         IN [hit |-> to > from, group |-> SubSeq(t, from, to - 1), next |-> to]
    ELSE [hit |-> FALSE, group |-> <<>>, next |-> i]

\* re.findall(VARIABLES_PATTERN, t): the groups of the matches, left to right,
\* each search starting where the match before it ended
RECURSIVE FindAllVariables(_, _)
FindAllVariables(t, i) ==
    IF i > Len(t) THEN <<>>
    ELSE LET m == MatchVariable(t, i)
         IN IF m.hit THEN <<m.group>> \o FindAllVariables(t, m.next)
            ELSE FindAllVariables(t, i + 1)

\* (an extractor that sorts the list of all matches)
find_variables_in_playbook_NoSet(yaml_string) ==
    Sort(FindAllVariables(yaml_string, 1))
find_variables_in_playbook(yaml_string) ==
    Sort(ListOfSet(FindAllVariables(yaml_string, 1)))

\* The pieces a scanned text is made of: template expressions and plain text,
\* one per line.
ExprDotted == <<"{", "{", " ", "a", ".", "b", " ", "}", "}">>
ExprBare == <<"{", "{", "a", "}", "}">>
ExprFilter == <<"{", "{", " ", "a", " ", "|", " ", "d", "e", "f", "a", "u", "l", "t", " ", "}", "}">>
ExprTightFilter == <<"{", "{", "a", "|", "d", "e", "f", "a", "u", "l", "t", "}", "}">>
ExprIndex == <<"{", "{", " ", "a", "[", "0", "]", " ", "}", "}">>
ExprOther == <<"{", "{", " ", "b", " ", "}", "}">>
ExprEmpty == <<"{", "{", " ", "}", "}">>
ExprOpen == <<"{", "{", " ", "a">>
PlainText == <<"-", " ", "b">>

\* the expressions whose root name is a
RootAExprs == {ExprDotted, ExprBare, ExprFilter, ExprTightFilter, ExprIndex}
\* the expressions that are closed and name a variable
ClosedExprs == RootAExprs \cup {ExprOther}
Segments == ClosedExprs \cup {ExprEmpty, ExprOpen, PlainText}

RECURSIVE TextOf(_)
TextOf(pieces) ==
    IF pieces = <<>> THEN <<>> ELSE Head(pieces) \o <<"\n">> \o TextOf(Tail(pieces))

\* variables = find_variables_in_playbook(yaml_string)
ExtractFind ==
    /\ variables' = find_variables_in_playbook(TextOf(segs))
    /\ baseline' = IF baseline = Null THEN variables' ELSE baseline
    /\ UNCHANGED <<optVars, segs, playsVars, hostVars, runVars>>

\* another text: two neighbouring pieces of the text change places
ExtractSwap ==
    /\ variables # Null
    /\ \E k \in 1..(Len(segs) - 1) :
          /\ segs[k] # segs[k + 1]
          /\ segs' = [segs EXCEPT ![k] = segs[k + 1], ![k + 1] = segs[k]]
    /\ variables' = Null
    /\ UNCHANGED <<optVars, baseline, playsVars, hostVars, runVars>>

\* another text: one piece of the text is repeated
ExtractRepeat ==
    /\ variables # Null
    /\ Len(segs) < MaxSegs
    /\ \E k \in 1..Len(segs) :
          segs' = SubSeq(segs, 1, k) \o <<segs[k]>> \o SubSeq(segs, k + 1, Len(segs))
    /\ variables' = Null
    /\ UNCHANGED <<optVars, baseline, playsVars, hostVars, runVars>>

ExtractNext == ExtractFind \/ ExtractSwap \/ ExtractRepeat

\* ------------------------------------------------------------------------
\* Host and group selection
\* ------------------------------------------------------------------------
\* Lines of an inventory file.
LineWeb1 == <<"w", "e", "b", "1">>
LineWebservers == <<"[", "w", "e", "b", "s", "e", "r", "v", "e", "r", "s", "]">>
LineDb1 == <<"d", "b", "1">>
LineWeb == <<"[", "w", "e", "b", "]">>
LineWeb1Group == <<"[", "w", "e", "b", "1", "]">>
LineIndented == <<" ", "d", "b", "1">>
\* a section header with a space in it: its first token has no closing bracket
LineOpenGroup == <<"[", "w", "e", "b", " ", "x", "]">>
InventoryLines ==
    {LineWeb1, LineWebservers, LineDb1, LineWeb, LineWeb1Group, LineIndented,
     LineOpenGroup}

\* [^\s]+ from position i: the first position that holds white space
RECURSIVE SkipNonSpace(_, _)
SkipNonSpace(t, i) ==
    IF i <= Len(t) /\ ~IsSpace(t[i]) THEN SkipNonSpace(t, i + 1) ELSE i

\* the loop over the lines of the file: re.search(HOST_FILE_ENTRY_PATTERN, line)
\* with "^([^\s]+)", and the append of its group when it matches
RECURSIVE ReadEntries(_)
ReadEntries(lines) ==
    IF lines = <<>> THEN <<>>
    ELSE LET to == SkipNonSpace(Head(lines), 1)
         IN (IF to > 1 THEN <<SubSeq(Head(lines), 1, to - 1)>> ELSE <<>>)
                \o ReadEntries(Tail(lines))

\* An item of the entered line, between two commas: a number, a word that is
\* no number, white space only, or nothing at all.
Item(kind, val) == [kind |-> kind, val |-> val]
Items(n) ==
    { Item("int", v) : v \in (0 - 1)..(n + 1) }
    \cup {Item("word", 0), Item("blank", 0), Item("empty", 0)}

\* [int(number.strip()) for number in choice.split(",") if number]: an empty
\* item is left out, int() of anything else that is no number is a ValueError
RECURSIVE Kept(_)
Kept(items) ==
    IF items = <<>> THEN <<>>
    ELSE (IF Head(items).kind = "empty" THEN <<>> ELSE <<Head(items)>>) \o Kept(Tail(items))
RaisesValueError(items) ==
    \E k \in 1..Len(items) : items[k].kind \in {"word", "blank"}
Numbers(items) == [k \in 1..Len(Kept(items)) |-> Kept(items)[k].val]

\* options[k] of a Python list, k counted from 0 and from the end when negative
InRange(options, k) == (0 - Len(options)) <= k /\ k < Len(options)
PyIndex(options, k) == IF k >= 0 THEN options[k + 1] ELSE options[Len(options) + k + 1]

\* the loop `for number in numbers` with its `continue`: one 'Invalid choice'
\* for each number out of range, and the loop goes on with the next number
InvalidPrinted(options, numbers) ==
    Cardinality({ k \in 1..Len(numbers) : numbers[k] < 0 \/ numbers[k] > Len(options) })

\* One pass of the loop of propose_multiple_options for one entered line.
propose_multiple_options(options, items) ==
    IF RaisesValueError(items)
    THEN [kind |-> "again", value |-> <<>>, invalid |-> 1]
    ELSE LET numbers == Numbers(items)
             printed == InvalidPrinted(options, numbers)
         IN IF \E k \in 1..Len(numbers) : numbers[k] = 0
            THEN [kind |-> "return", value |-> options, invalid |-> printed]
            ELSE IF \E k \in 1..Len(numbers) : ~InRange(options, numbers[k] - 1)
            THEN [kind |-> "IndexError", value |-> <<>>, invalid |-> printed]
            ELSE [kind |-> "return",
                  value |-> Sort([k \in 1..Len(numbers) |->
                                     PyIndex(options, numbers[k] - 1)]),
                  invalid |-> printed]

\* hosts_entry.startswith("[") and hosts_entry[1:-1]
IsGroupEntry(entry) == entry # <<>> /\ Head(entry) = "["
StripBrackets(entry) == SubSeq(entry, 2, Len(entry) - 1)
RECURSIVE GroupsOf(_)
GroupsOf(selected) ==
    IF selected = <<>> THEN <<>>
    ELSE (IF IsGroupEntry(Head(selected)) THEN <<StripBrackets(Head(selected))>> ELSE <<>>)
            \o GroupsOf(Tail(selected))
RECURSIVE HostsOf(_)
HostsOf(selected) ==
    IF selected = <<>> THEN <<>>
    ELSE (IF IsGroupEntry(Head(selected)) THEN <<>> ELSE <<Head(selected)>>)
            \o HostsOf(Tail(selected))

\* select_hosts_and_groups: the inventory file is read
ReadInventory ==
    /\ hpc = "read"
    /\ ansible_hosts_entries' = ReadEntries(inventory)
    /\ hpc' = "prompt"
    /\ UNCHANGED <<optVars, inventory, choice, invalid, groups, hosts, playsVars, extractVars, runVars>>

\* select_hosts_and_groups: one line is entered at the prompt; the prompt asks
\* again (the rejected line is forgotten), or the call fails, or the selection
\* is split and returned
SelectHosts ==
    /\ hpc = "prompt"
    /\ \E k \in 1..MaxItems : \E items \in [1..k -> Items(Len(ansible_hosts_entries))] :
         LET out == propose_multiple_options(ansible_hosts_entries, items)
         IN /\ choice' = IF out.kind = "again" THEN <<>> ELSE items
            /\ invalid' = out.invalid
            /\ hpc' = CASE out.kind = "again" -> "prompt"
                        [] out.kind = "return" -> "returned"
                        [] OTHER -> "IndexError"
            /\ groups' = IF out.kind = "return" THEN GroupsOf(out.value) ELSE groups
            /\ hosts' = IF out.kind = "return" THEN HostsOf(out.value) ELSE hosts
    /\ UNCHANGED <<optVars, inventory, ansible_hosts_entries, playsVars, extractVars, runVars>>

HostsNext == ReadInventory \/ SelectHosts

\* ------------------------------------------------------------------------
\* Prompting primitives
\* ------------------------------------------------------------------------
\* choice.lower() == "y"
Lower(c) == IF c = "Y" THEN "y" ELSE c
Answers == {"y", "Y", "n"}
ask(answer) == Lower(answer) = "y"

\* One pass of the loop of propose_options for one entered line.
propose_options(options, propose_all, allow_none, item) ==
    IF allow_none /\ item.kind = "empty"
    THEN [kind |-> "none", value |-> Null]
    ELSE IF item.kind # "int"
    THEN [kind |-> "again", value |-> Null]
    ELSE IF item.val < 0 \/ (~propose_all /\ item.val = 0) \/ item.val > Len(options)
    THEN [kind |-> "again", value |-> Null]
    ELSE IF ~InRange(options, item.val - 1)
    THEN [kind |-> "IndexError", value |-> Null]
    ELSE [kind |-> "return", value |-> PyIndex(options, item.val - 1)]

\* propose_options on its own: one line is entered at its prompt; it prints
\* 'Invalid choice' and asks again, or returns None or an option, or fails
ProposeOptions ==
    /\ po_pc \in {"prompt", "invalid"}
    /\ \E item \in Items(Len(po_options)) :
         LET out == propose_options(po_options, po_propose_all, po_allow_none, item)
         IN /\ po_choice' = item
            /\ po_return' = IF out.kind = "return" THEN out.value ELSE po_return
            /\ po_pc' = CASE out.kind = "again" -> "invalid"
                          [] out.kind = "none" -> "none"
                          [] out.kind = "return" -> "returned"
                          [] OTHER -> "IndexError"
    /\ UNCHANGED <<po_options, po_propose_all, po_allow_none,
                   playsVars, extractVars, hostVars, runVars>>

\* ------------------------------------------------------------------------
\* The run of the tool
\* ------------------------------------------------------------------------
DefaultHosts == "/etc/ansible/hosts"
HostPaths == {DefaultHosts, "inventory", "nofile"}
\* the values entered at "Value: "
Values == {<<"1">>, <<"2">>}
\* the return codes of an external tool that ran to its end
ReturnCodes == {0, 2}

\* sys.exit(status): the exit status of the process is one byte
ExitStatus(status) == status % 256

\* the prompts of the run
PromptPcs ==
    {"enter_location_missing", "ask_correct", "enter_location_wrong", "choose_playbook",
     "select_hosts", "ask_define", "choose_variable", "enter_value", "ask_ssh",
     "ask_become", "ask_proceed"}
\* (a main program that calls execute_command after the try block)
InTry_ExecuteOutside(at) ==
    at \in {"check_hosts_file", "enter_location_missing", "ask_correct",
            "enter_location_wrong", "select_playbook", "choose_playbook",
            "print_playbook_info", "select_hosts", "ask_define", "choose_variable",
            "enter_value", "ask_ssh", "ask_become"}
\* the calls made inside `try: ... except KeyboardInterrupt` of the main program
InTry(at) ==
    at \in {"check_hosts_file", "enter_location_missing", "ask_correct",
            "enter_location_wrong", "select_playbook", "choose_playbook",
            "print_playbook_info", "select_hosts", "ask_define", "choose_variable",
            "enter_value", "ask_ssh", "ask_become", "ask_proceed", "subprocess"}

\* the process ends
Exit(how, status) ==
    /\ pc' = "exited"
    /\ ending' = how
    /\ exitCode' = ExitStatus(status)
\* an exception leaves the main program: 130 for a KeyboardInterrupt raised
\* inside the try block, a traceback and status 1 for anything else
Raise(exception, at) ==
    IF exception = "KeyboardInterrupt" /\ InTry(at)
    THEN Exit("interrupted", 130)
    ELSE Exit("uncaught", 1)

runData == <<path_to_playbooks, hfiles, ansible_hosts_file, ANSIBLE_HOSTS_LOCATION,
             found_playbooks, chosen_var, defined_variables>>
runEnd == <<launched, interruptedAt, ending, exitCode>>
runBuild == <<command, answers, entered>>

\* the name of a path and the paths of the store sorted by name
RECURSIVE PathsByName(_)
PathsByName(ps) ==
    IF ps = <<>> THEN <<>>
    ELSE (IF IsFile(Head(ps)) THEN <<Head(ps)>> ELSE <<>>) \o PathsByName(Tail(ps))

\* (a mapping in which a name bound again moves to the end)
RECURSIVE Put_MoveToEnd(_, _, _)
Put_MoveToEnd(bindings, name, value) ==
    IF bindings = <<>> THEN << <<name, value>> >>
    ELSE IF Head(bindings)[1] = name THEN Put_MoveToEnd(Tail(bindings), name, value)
    ELSE <<Head(bindings)>> \o Put_MoveToEnd(Tail(bindings), name, value)
\* defined_variables[chosen_var] = value
RECURSIVE Put(_, _, _)
Put(bindings, name, value) ==
    IF bindings = <<>> THEN << <<name, value>> >>
    ELSE IF Head(bindings)[1] = name THEN << <<name, value>> >> \o Tail(bindings)
    ELSE <<Head(bindings)>> \o Put(Tail(bindings), name, value)

\* ------------------------------------------------------------------------
\* Command assembly
\* ------------------------------------------------------------------------
ProgramName ==
    <<"a", "n", "s", "i", "b", "l", "e", "-", "p", "l", "a", "y", "b", "o", "o", "k">>
FlagExtraVars == <<"-", "-", "e", "x", "t", "r", "a", "-", "v", "a", "r", "s">>
FlagLimit == <<"-", "-", "l", "i", "m", "i", "t">>
FlagAskPass == <<"-", "-", "a", "s", "k", "-", "p", "a", "s", "s">>
FlagAskBecomePass ==
    <<"-", "-", "a", "s", "k", "-", "b", "e", "c", "o", "m", "e", "-", "p", "a", "s", "s">>

\* str(selected_playbook_path): the components of the absolute path after "/"
Chars(component) ==
    CASE component = "p" -> <<"p">>
      [] component = "a.yml" -> <<"a", ".", "y", "m", "l">>
      [] component = "b.yml" -> <<"b", ".", "y", "m", "l">>
      [] component = "c.yml" -> <<"c", ".", "y", "m", "l">>
RECURSIVE PathStr(_)
PathStr(path) ==
    IF path = <<>> THEN <<>> ELSE <<"/">> \o Chars(Head(path)) \o PathStr(Tail(path))

\* sep.join(list)
RECURSIVE JoinWith(_, _)
JoinWith(sep, list) ==
    IF list = <<>> THEN <<>>
    ELSE IF Len(list) = 1 THEN Head(list)
    ELSE Head(list) \o sep \o JoinWith(sep, Tail(list))

\* "{}={}".format(k, v)
FormatBinding(k, v) == k \o <<"=">> \o v

\* the loop over defined_variables.items(): two arguments for each binding
RECURSIVE ExtraVars(_)
ExtraVars(bindings) ==
    IF bindings = <<>> THEN <<>>
    ELSE <<FlagExtraVars, FormatBinding(Head(bindings)[1], Head(bindings)[2])>>
            \o ExtraVars(Tail(bindings))

\* (an assembly that puts the limit before the variables)
CommandHead_LimitFirst(playbook_path, bindings, groups_and_hosts) ==
    <<ProgramName, PathStr(playbook_path)>>
        \o <<FlagLimit, JoinWith(<<":">>, groups_and_hosts)>>
        \o ExtraVars(bindings)
\* build_ansible_command up to its first question
CommandHead(playbook_path, bindings, groups_and_hosts) ==
    <<ProgramName, PathStr(playbook_path)>>
        \o ExtraVars(bindings)
        \o <<FlagLimit, JoinWith(<<":">>, groups_and_hosts)>>

\* no question was answered with y yet
NoAnswers == [define |-> FALSE, ssh |-> FALSE, become |-> FALSE]

\* (a check that takes every path for a file)
IsHostsFile_Any(path) == path \in HostPaths
\* os.path.isfile(ansible_hosts_file)
IsHostsFile(path) == path \in hfiles
\* the path named in "Ansible hosts file location is '{}'": the global
QuestionPath == ANSIBLE_HOSTS_LOCATION

\* __main__: the argument is checked (a message only), check_hosts_file is called
RunCheckHosts ==
    /\ pc = "check_hosts_file"
    /\ ansible_hosts_file' = ANSIBLE_HOSTS_LOCATION
    /\ pc' = IF IsHostsFile(ANSIBLE_HOSTS_LOCATION) THEN "ask_correct"
             ELSE "enter_location_missing"
    /\ UNCHANGED <<optVars, runBuild, path_to_playbooks, hfiles, ANSIBLE_HOSTS_LOCATION, found_playbooks,
                   chosen_var, defined_variables, runEnd, playsVars, extractVars, hostVars>>

\* ask_for_hosts_file: a location is entered, and asked for again while it is no file
RunEnterLocation ==
    /\ pc \in {"enter_location_missing", "enter_location_wrong"}
    /\ \E path \in HostPaths :
         /\ ansible_hosts_file' = path
         /\ IF ~IsHostsFile(path)
            THEN UNCHANGED <<pc, ANSIBLE_HOSTS_LOCATION>>
            ELSE IF pc = "enter_location_missing"
            THEN pc' = "ask_correct" /\ UNCHANGED ANSIBLE_HOSTS_LOCATION
            ELSE pc' = "select_playbook" /\ ANSIBLE_HOSTS_LOCATION' = path
    /\ UNCHANGED <<optVars, runBuild, path_to_playbooks, hfiles, found_playbooks, chosen_var,
                   defined_variables, runEnd, playsVars, extractVars, hostVars>>

\* check_hosts_file: "Ansible hosts file location is ... Is that correct"
RunAskCorrect ==
    /\ pc = "ask_correct"
    /\ \E answer \in Answers :
         IF ask(answer)
         THEN pc' = "select_playbook" /\ ANSIBLE_HOSTS_LOCATION' = ansible_hosts_file
         ELSE pc' = "enter_location_wrong" /\ UNCHANGED ANSIBLE_HOSTS_LOCATION
    /\ UNCHANGED <<optVars, runBuild, path_to_playbooks, hfiles, ansible_hosts_file, found_playbooks,
                   chosen_var, defined_variables, runEnd, playsVars, extractVars, hostVars>>

\* select_playbook: the *.yml files under the directory, sorted by name; rglob
\* finds none under a directory that has none or does not exist
RunSelectPlaybook ==
    /\ pc = "select_playbook"
    /\ found_playbooks' = IF path_to_playbooks = "valid" THEN PathsByName(PathSeq) ELSE <<>>
    /\ pc' = "choose_playbook"
    /\ UNCHANGED <<optVars, runBuild, path_to_playbooks, hfiles, ansible_hosts_file, ANSIBLE_HOSTS_LOCATION,
                   chosen_var, defined_variables, runEnd, playsVars, extractVars, hostVars>>

\* select_playbook: the prompt of propose_options; then the file is read and
\* print_playbook_info calls find_plays_in_playbook
RunChoosePlaybook ==
    /\ pc = "choose_playbook"
    /\ \E item \in Items(Len(found_playbooks)) :
         LET out == propose_options(found_playbooks, FALSE, FALSE, item)
         IN IF out.kind = "return"
            THEN /\ root' = out.value
                 /\ ppc' = "call"
                 /\ pc' = "print_playbook_info"
            ELSE UNCHANGED <<root, ppc, pc>>
    /\ UNCHANGED <<optVars, runBuild, files, docs, stack, result, warnings, runData, runEnd,
                   extractVars, hostVars>>

\* print_playbook_info has printed the plays; select_hosts_and_groups is called
RunPlaybookInfo ==
    /\ pc = "print_playbook_info"
    /\ ppc = "done"
    /\ pc' = "select_hosts"
    /\ hpc' = "read"
    /\ UNCHANGED <<optVars, runBuild, inventory, ansible_hosts_entries, choice, invalid, groups, hosts,
                   runData, runEnd, playsVars, extractVars>>

\* the recursion of find_plays_in_playbook was abandoned: the error leaves main
RunRecursionError ==
    /\ pc = "print_playbook_info"
    /\ ppc = "overflow"
    /\ Raise("RecursionError", pc)
    /\ UNCHANGED <<optVars, runBuild, launched, interruptedAt, runData, playsVars, extractVars, hostVars>>

\* select_hosts_and_groups has returned groups and hosts, the line entered in
\* propose_multiple_options is gone with the call; find_variables_in_playbook
\* is called
RunHostsSelected ==
    /\ pc = "select_hosts"
    /\ hpc = "returned"
    /\ choice' = <<>>
    /\ invalid' = 0
    /\ variables' = find_variables_in_playbook(TextOf(segs))
    /\ pc' = "ask_define"
    /\ UNCHANGED <<optVars, runBuild, segs, baseline, runData, runEnd, playsVars,
                   inventory, ansible_hosts_entries, hpc, groups, hosts>>

\* the IndexError of propose_multiple_options leaves main
RunIndexError ==
    /\ pc = "select_hosts"
    /\ hpc = "IndexError"
    /\ Raise("IndexError", pc)
    /\ UNCHANGED <<optVars, runBuild, launched, interruptedAt, runData, playsVars, extractVars, hostVars>>

\* define_variables_values: "Want to define variables"
RunAskDefine ==
    /\ pc = "ask_define"
    /\ defined_variables' = <<>>
    /\ entered' = <<>>
    /\ \E answer \in Answers :
         /\ answers' = [answers EXCEPT !.define = ask(answer)]
         /\ pc' = IF ask(answer) THEN "choose_variable" ELSE "ask_ssh"
    /\ UNCHANGED <<optVars, command, path_to_playbooks, hfiles, ansible_hosts_file, ANSIBLE_HOSTS_LOCATION,
                   found_playbooks, chosen_var, runEnd, playsVars, extractVars, hostVars>>

\* define_variables_values: the prompt of propose_options over the variables
RunChooseVariable ==
    /\ pc = "choose_variable"
    /\ \E item \in Items(Len(variables)) :
         LET out == propose_options(variables, FALSE, TRUE, item)
             accepted == Append(entered, [line |-> item, value |-> <<>>])
         IN CASE out.kind = "none" ->
                   pc' = "ask_ssh" /\ chosen_var' = Null /\ entered' = accepted
              [] out.kind = "return" ->
                   /\ Len(entered) < MaxBindings
                   /\ pc' = "enter_value" /\ chosen_var' = out.value /\ entered' = accepted
              [] OTHER -> UNCHANGED <<pc, chosen_var, entered>>
    /\ UNCHANGED <<optVars, command, answers, path_to_playbooks, hfiles, ansible_hosts_file, ANSIBLE_HOSTS_LOCATION,
                   found_playbooks, defined_variables, runEnd, playsVars, extractVars,
                   hostVars>>

\* define_variables_values: "Value: "
RunEnterValue ==
    /\ pc = "enter_value"
    /\ \E value \in Values :
         /\ defined_variables' = Put(defined_variables, chosen_var, value)
         /\ entered' = [entered EXCEPT ![Len(entered)].value = value]
    /\ pc' = "choose_variable"
    /\ UNCHANGED <<optVars, command, answers, path_to_playbooks, hfiles, ansible_hosts_file, ANSIBLE_HOSTS_LOCATION,
                   found_playbooks, chosen_var, runEnd, playsVars, extractVars, hostVars>>

\* define_variables_values has returned, the lines entered in it are gone with
\* the call; build_ansible_command: the arguments up to the limit, "Ask for SSH
\* password"
RunAskSsh ==
    /\ pc = "ask_ssh"
    /\ \E answer \in Answers :
         LET head == CommandHead(root, defined_variables, groups \o hosts)
         IN /\ command' = IF ask(answer) THEN head \o <<FlagAskPass>> ELSE head
            /\ answers' = [answers EXCEPT !.ssh = ask(answer)]
    /\ entered' = <<>>
    /\ pc' = "ask_become"
    /\ UNCHANGED <<optVars, runData, runEnd, playsVars, extractVars, hostVars>>

\* build_ansible_command: "Ask for privilege escalation password"
RunAskBecome ==
    /\ pc = "ask_become"
    /\ \E answer \in Answers :
         /\ command' = IF ask(answer) THEN command \o <<FlagAskBecomePass>> ELSE command
         /\ answers' = [answers EXCEPT !.become = ask(answer)]
    /\ pc' = "ask_proceed"
    /\ UNCHANGED <<optVars, entered, runData, runEnd, playsVars, extractVars, hostVars>>

\* execute_command: "Proceed"; return 0 when the answer is not y
RunAskProceed ==
    /\ pc = "ask_proceed"
    /\ \E answer \in Answers :
         IF ask(answer)
         THEN pc' = "subprocess" /\ UNCHANGED <<ending, exitCode>>
         ELSE Exit("declined", 0)
    /\ UNCHANGED <<optVars, runBuild, launched, interruptedAt, runData, playsVars, extractVars, hostVars>>

\* subprocess.run(command) ran the tool to its end: its return code is the status
RunToolReturns ==
    /\ pc = "subprocess"
    /\ launched' = TRUE
    /\ \E returncode \in ReturnCodes : Exit("ran", returncode)
    /\ UNCHANGED <<optVars, runBuild, interruptedAt, runData, playsVars, extractVars, hostVars>>

\* subprocess.run(command) raised an Exception: return 1
RunLaunchFails ==
    /\ pc = "subprocess"
    /\ Exit("launch_failed", 1)
    /\ UNCHANGED <<optVars, runBuild, launched, interruptedAt, runData, playsVars, extractVars, hostVars>>

\* the operator interrupts while the tool runs: the KeyboardInterrupt is no
\* Exception and reaches the handler of main
RunToolInterrupted ==
    /\ pc = "subprocess"
    /\ launched' = TRUE
    /\ interruptedAt' = "subprocess"
    /\ Raise("KeyboardInterrupt", pc)
    /\ UNCHANGED <<optVars, runBuild, runData, playsVars, extractVars, hostVars>>

\* the operator interrupts at a prompt: input() raises KeyboardInterrupt
RunInterrupt ==
    /\ pc \in PromptPcs
    /\ pc = "select_hosts" => hpc = "prompt"
    /\ interruptedAt' = pc
    /\ Raise("KeyboardInterrupt", pc)
    /\ UNCHANGED <<optVars, runBuild, launched, runData, playsVars, extractVars, hostVars>>

RunNext ==
    \/ RunCheckHosts \/ RunEnterLocation \/ RunAskCorrect
    \/ RunSelectPlaybook \/ RunChoosePlaybook
    \/ PlaysCall \/ PlaysWarn \/ PlaysDescend \/ PlaysOverflow \/ PlaysReturn
    \/ RunPlaybookInfo \/ RunRecursionError
    \/ ReadInventory \/ SelectHosts
    \/ RunHostsSelected \/ RunIndexError
    \/ RunAskDefine \/ RunChooseVariable \/ RunEnterValue
    \/ RunAskSsh \/ RunAskBecome \/ RunAskProceed
    \/ RunToolReturns \/ RunLaunchFails \/ RunToolInterrupted
    \/ RunInterrupt

\* ------------------------------------------------------------------------
\* Specifications
\* ------------------------------------------------------------------------
PlaysIdle ==
    /\ files = {RootPath}
    /\ docs = [p \in Paths |-> <<>>]
    /\ stack = <<>>
    /\ result = Null
    /\ warnings = <<>>
    /\ ppc = "idle"
    /\ root = RootPath
ExtractIdle == segs = <<>> /\ variables = Null /\ baseline = Null
RunIdle ==
    /\ pc = "idle"
    /\ path_to_playbooks = "valid"
    /\ hfiles = {}
    /\ ansible_hosts_file = Null
    /\ ANSIBLE_HOSTS_LOCATION = DefaultHosts
    /\ found_playbooks = <<>>
    /\ chosen_var = Null
    /\ defined_variables = <<>>
    /\ launched = FALSE
    /\ interruptedAt = Null
    /\ ending = Null
    /\ exitCode = Null
    /\ command = <<>>
    /\ answers = NoAnswers
    /\ entered = <<>>
OptionsIdle ==
    /\ po_options = <<>>
    /\ po_propose_all = FALSE
    /\ po_allow_none = FALSE
    /\ po_choice = Null
    /\ po_return = Null
    /\ po_pc = "idle"
HostsIdle ==
    /\ inventory = <<>>
    /\ ansible_hosts_entries = <<>>
    /\ hpc = "idle"
    /\ choice = <<>>
    /\ invalid = 0
    /\ groups = <<>>
    /\ hosts = <<>>

PlaysInit(n) ==
    /\ StoreInit(n)
    /\ stack = <<>>
    /\ result = Null
    /\ warnings = <<>>
    /\ ppc = "call"
    /\ root = RootPath
    /\ ExtractIdle
    /\ HostsIdle
    /\ RunIdle
    /\ OptionsIdle

SpecPlays == PlaysInit(MaxLines) /\ [][PlaysNext]_vars
\* The interpreter runs the call to its end: every step that can be taken is.
FairSpecPlays == PlaysInit(MaxCycleLines) /\ [][PlaysNext]_vars /\ WF_vars(PlaysNext)

ExtractInit ==
    /\ segs \in UNION { [1..k -> Segments] : k \in 0..MaxSegs }
    /\ variables = Null
    /\ baseline = Null
    /\ PlaysIdle
    /\ HostsIdle
    /\ RunIdle
    /\ OptionsIdle

SpecExtract == ExtractInit /\ [][ExtractNext]_vars

HostsInit ==
    /\ inventory \in UNION { [1..k -> InventoryLines] : k \in 0..MaxEntries }
    /\ ansible_hosts_entries = <<>>
    /\ hpc = "read"
    /\ choice = <<>>
    /\ invalid = 0
    /\ groups = <<>>
    /\ hosts = <<>>
    /\ PlaysIdle
    /\ ExtractIdle
    /\ RunIdle
    /\ OptionsIdle

SpecHosts == HostsInit /\ [][HostsNext]_vars

\* The state in which the main program starts: the directory given exists or
\* not, the default inventory is a file or not, and the store, the inventory
\* and the text of the playbooks are as the operator left them.
RunInit ==
    /\ StoresOver({{PathSeq[1]}, {PathSeq[1], PathSeq[2]}}, RunSize)
    /\ stack = <<>> /\ result = Null /\ warnings = <<>> /\ ppc = "idle"
    /\ root = RootPath
    /\ segs \in UNION { [1..k -> {ExprBare, ExprOther}] : k \in 0..(RunSize - TotalLines) }
    \* (no variable is found before find_variables_in_playbook is called)
    /\ variables = <<>> /\ baseline = Null
    /\ inventory \in UNION { [1..k -> {LineWeb1, LineWeb}] :
                                  k \in 0..(RunSize - TotalLines - Len(segs)) }
    /\ ansible_hosts_entries = <<>> /\ hpc = "idle" /\ choice = <<>> /\ invalid = 0
    /\ groups = <<>> /\ hosts = <<>>
    /\ pc = "check_hosts_file"
    /\ path_to_playbooks \in {"valid", "empty", "invalid"}
    /\ hfiles \in {{"inventory"}, {DefaultHosts, "inventory"}}
    /\ ansible_hosts_file = Null
    /\ ANSIBLE_HOSTS_LOCATION = DefaultHosts
    /\ found_playbooks = <<>>
    /\ chosen_var = Null
    /\ defined_variables = <<>>
    /\ launched = FALSE
    /\ interruptedAt = Null
    /\ ending = Null
    /\ exitCode = Null
    /\ command = <<>>
    /\ answers = NoAnswers
    /\ entered = <<>>
    /\ OptionsIdle

Spec == RunInit /\ [][RunNext]_vars

\* The operator keeps answering: every step but an interrupt.
RunAnswer ==
    \/ RunCheckHosts \/ RunEnterLocation \/ RunAskCorrect
    \/ RunSelectPlaybook \/ RunChoosePlaybook
    \/ PlaysCall \/ PlaysWarn \/ PlaysDescend \/ PlaysOverflow \/ PlaysReturn
    \/ RunPlaybookInfo \/ RunRecursionError
    \/ ReadInventory \/ SelectHosts
    \/ RunHostsSelected \/ RunIndexError
    \/ RunAskDefine \/ RunChooseVariable \/ RunEnterValue
    \/ RunAskSsh \/ RunAskBecome \/ RunAskProceed
    \/ RunToolReturns \/ RunLaunchFails
\* An answer that ends the loop of a prompt that asks again.
ValidAnswer ==
    \/ RunEnterLocation /\ pc' # pc
    \/ RunChoosePlaybook /\ pc' # pc
    \/ SelectHosts /\ hpc' # hpc
    \/ RunChooseVariable /\ pc' = "ask_ssh"
\* The run under an operator who answers every prompt and in the end gives
\* each prompt an answer it accepts.
position == <<pc, ppc, hpc, stack>>
FairSpec ==
    RunInit /\ [][RunNext]_vars /\ WF_position(RunAnswer) /\ SF_position(ValidAnswer)

\* build_ansible_command on its own: called with any playbook path, any
\* bindings and any selection of groups and hosts.
VarNames == {<<"a">>, <<"b">>}
BindingLists ==
    { b \in UNION { [1..k -> VarNames \X Values] : k \in 0..Cardinality(VarNames) } :
        \A i, j \in 1..Len(b) : b[i][1] = b[j][1] => i = j }
GroupNames == {StripBrackets(LineWeb), StripBrackets(LineWebservers)}
HostNames == {LineWeb1, LineDb1}
BuildInit ==
    /\ files = Paths
    /\ docs = [p \in Paths |-> <<>>]
    /\ stack = <<>> /\ result = Null /\ warnings = <<>> /\ ppc = "idle"
    /\ root \in Paths
    /\ ExtractIdle
    /\ inventory = <<>> /\ ansible_hosts_entries = <<>> /\ hpc = "idle"
    /\ choice = <<>> /\ invalid = 0
    /\ groups \in UNION { [1..k -> GroupNames] : k \in 0..MaxSelected }
    /\ hosts \in UNION { [1..k -> HostNames] : k \in 0..(MaxSelected - Len(groups)) }
    /\ pc = "ask_ssh"
    /\ path_to_playbooks = "valid"
    /\ hfiles = {DefaultHosts}
    /\ ansible_hosts_file = DefaultHosts
    /\ ANSIBLE_HOSTS_LOCATION = DefaultHosts
    /\ found_playbooks = PathSeq
    /\ chosen_var = Null
    /\ defined_variables \in BindingLists
    /\ launched = FALSE /\ interruptedAt = Null /\ ending = Null /\ exitCode = Null
    /\ command = <<>>
    /\ answers = NoAnswers
    /\ entered = <<>>
    /\ OptionsIdle
BuildNext == RunAskSsh \/ RunAskBecome

\* define_variables_values on its own: called with any list that
\* find_variables_in_playbook can return.
VariableLists ==
    { v \in UNION { [1..k -> VarNames] : k \in 0..Cardinality(VarNames) } :
        \A k \in 1..(Len(v) - 1) : StrLess(v[k], v[k + 1]) }
DefineInit ==
    /\ PlaysIdle
    /\ segs = <<>> /\ variables \in VariableLists /\ baseline = Null
    /\ HostsIdle
    /\ pc = "ask_define"
    /\ path_to_playbooks = "valid"
    /\ hfiles = {DefaultHosts}
    /\ ansible_hosts_file = DefaultHosts
    /\ ANSIBLE_HOSTS_LOCATION = DefaultHosts
    /\ found_playbooks = <<RootPath>>
    /\ chosen_var = Null
    /\ defined_variables = <<>>
    /\ launched = FALSE /\ interruptedAt = Null /\ ending = Null /\ exitCode = Null
    /\ command = <<>>
    /\ answers = NoAnswers
    /\ entered = <<>>
    /\ OptionsIdle
DefineNext == RunAskDefine \/ RunChooseVariable \/ RunEnterValue

SpecDefine == DefineInit /\ [][DefineNext]_vars

\* propose_options on its own: called with any list of options, with and
\* without the 'All' choice, with and without the leave to skip.
OptionsInit ==
    /\ po_options \in UNION { [1..k -> VarNames] : k \in 0..MaxOptions }
    /\ po_propose_all \in BOOLEAN
    /\ po_allow_none \in BOOLEAN
    /\ po_choice = Null
    /\ po_return = Null
    /\ po_pc = "prompt"
    /\ PlaysIdle
    /\ ExtractIdle
    /\ HostsIdle
    /\ RunIdle
OptionsNext == ProposeOptions

SpecOptions == OptionsInit /\ [][OptionsNext]_vars

SpecBuild == BuildInit /\ [][BuildNext]_vars

\* ------------------------------------------------------------------------
\* Properties of the resolver
\* ------------------------------------------------------------------------
\* C1: on an acyclic store in which every import resolves, the returned
\* sequence is the root's own play names in source order followed, for each
\* import of the root in declaration order, by the sequence of the imported
\* document resolved by the same rule.
C1_PreOrder ==
    (ppc = "done" /\ Acyclic(docs) /\ AllResolve(docs))
        => result = PreOrder(docs, root)
\* the example of the specification: a.yml declares Deploy and imports b.yml,
\* b.yml declares Configure, and the result is [Deploy, Configure]
C1_Witness ==
    /\ ppc = "done"
    /\ AllResolve(docs)
    /\ docs[root] = <<Line(FALSE, "name", "Deploy"),
                          Line(FALSE, "import_playbook", "b.yml")>>
    /\ docs[<<"p", "b.yml">>] = <<Line(FALSE, "name", "Configure")>>
    /\ result = <<"Deploy", "Configure">>

\* C2: an import that resolves to no file gives one warning naming the parent
\* and the reference each time it is met, contributes no play, and does not
\* stop the later imports of the document: the returned sequence is the one
\* of the store with the unresolvable declarations removed.
C2_MissingImport ==
    (ppc = "done" /\ Acyclic(docs)) =>
        /\ result = PreOrder(WithoutUnresolved, root)
        /\ \A p \in Paths : \A r \in ImportRefs :
              Count(<<p, r>>, warnings) =
                 IF IsFile(p) /\ r \in Unresolved(p)
                 THEN NumPaths(docs, root, p) * Count(r, FindImports(docs[p]))
                 ELSE 0
\* the root imports a missing document and then one that declares a play
C2_Witness ==
    /\ ppc = "done"
    /\ Len(FindImports(docs[root])) = 2
    /\ ~IsFile(ImportedPath(root, FindImports(docs[root])[1]))
    /\ IsFile(ImportedPath(root, FindImports(docs[root])[2]))
    /\ Len(warnings) = 1
    /\ Len(result) > 0

\* C6: the call returns a play sequence exactly when the resolvable imports
\* reachable from the root form no cycle: with a cycle the recursion deepens
\* to the interpreter's limit and nothing is returned, without one it ends.
C6_ReturnsIffAcyclic ==
    /\ Acyclic(docs) => <>(ppc = "done")
    /\ ~Acyclic(docs) => ([](ppc # "done") /\ <>(ppc = "overflow"))
\* a document that imports itself: the recursion reaches the limit
C6_Witness ==
    /\ ppc = "overflow"
    /\ \E k \in 1..(Len(stack) - 1) : stack[k].path = Top.path

\* C7: play names are accumulated: a name occurs in the result as often as the
\* sum over the documents of its occurrences in the document's own text times
\* the number of import paths from the root to the document.
C7_Accumulated ==
    (ppc = "done" /\ Acyclic(docs)) =>
        \A n \in PlayNames :
            Count(n, result) =
                Sum([p \in Paths |->
                        IF IsFile(p)
                        THEN Count(n, FindPlays(docs[p])) * NumPaths(docs, root, p)
                        ELSE 0], Paths)
\* a diamond: a document reached over two import paths gives its plays twice
C7_Witness ==
    /\ ppc = "done"
    /\ \E p \in Paths \ {root}, n \in PlayNames :
          /\ IsFile(p)
          /\ NumPaths(docs, root, p) = 2
          /\ Count(n, FindPlays(docs[p])) = 1
          /\ Count(n, result) = 2
\* ------------------------------------------------------------------------
\* Properties of the variable extractor
\* ------------------------------------------------------------------------
StrictlyIncreasing(s) == \A k \in 1..(Len(s) - 1) : StrLess(s[k], s[k + 1])
OnlyClosedExprs == \A k \in 1..Len(segs) : segs[k] \in ClosedExprs

\* C3: only the root name of an expression is captured: a text whose
\* expressions all have the root name a gives the one-element list [a].
C3_RootNameOnly ==
    (variables # Null /\ segs # <<>> /\ \A k \in 1..Len(segs) : segs[k] \in RootAExprs)
        => variables = << <<"a">> >>

\* C8: the returned list is strictly increasing, and texts whose expressions
\* are permutations of each other, or repeat an expression more or less
\* often, give the same list, as does a second run on the same text.
C8_SortedSet ==
    variables # Null =>
        /\ StrictlyIncreasing(variables)
        /\ OnlyClosedExprs => variables = baseline
\* two different names, extracted again after the text was rearranged
C8_Witness ==
    /\ variables # Null
    /\ OnlyClosedExprs
    /\ Len(variables) >= 2
    /\ Len(segs) > Len(variables)
    /\ \E k \in 1..(Len(segs) - 1) : StrLess(FindAllVariables(segs[k + 1], 1)[1],
                                            FindAllVariables(segs[k], 1)[1])

\* C19: an expression with only white space between its delimiters and an
\* expression that is opened and never closed give no name: a text made of
\* such expressions and plain text gives the empty list.
C19_MalformedYieldNothing ==
    (variables # Null /\ \A k \in 1..Len(segs) : segs[k] \in {ExprEmpty, ExprOpen, PlainText})
        => variables = <<>>

\* ------------------------------------------------------------------------
\* Properties of the host and group selection
\* ------------------------------------------------------------------------
ChoiceNumbers == Numbers(choice)
\* the entered line is one the prompt is meant to accept
AcceptedChoice ==
    \A k \in 1..Len(ChoiceNumbers) :
        0 <= ChoiceNumbers[k] /\ ChoiceNumbers[k] <= Len(ansible_hosts_entries)
\* the entries the line selects: all of them for 0, else those at its numbers
SelectedEntries ==
    IF \E k \in 1..Len(ChoiceNumbers) : ChoiceNumbers[k] = 0
    THEN ansible_hosts_entries
    ELSE [k \in 1..Len(ChoiceNumbers) |-> ansible_hosts_entries[ChoiceNumbers[k]]]
Bracketed(entry) == Len(entry) >= 2 /\ Head(entry) = "[" /\ entry[Len(entry)] = "]"
RECURSIVE Stripped(_)
Stripped(es) ==
    IF es = <<>> THEN <<>>
    ELSE (IF Bracketed(Head(es)) THEN <<SubSeq(Head(es), 2, Len(Head(es)) - 1)>> ELSE <<>>)
            \o Stripped(Tail(es))
RECURSIVE Bare(_)
Bare(es) ==
    IF es = <<>> THEN <<>>
    ELSE (IF Bracketed(Head(es)) THEN <<>> ELSE <<Head(es)>>) \o Bare(Tail(es))
SameElements(a, b) == \A x \in Range(a) \cup Range(b) : Count(x, a) = Count(x, b)
InOrder(s) == \A k \in 1..(Len(s) - 1) : ~StrLess(s[k + 1], s[k])

\* C4: for every selection the prompt accepts, the groups are the selected
\* bracketed entries without their brackets, the hosts are the selected bare
\* entries, and each of the two lists is in lexicographic order.
C4_PartitionSorted ==
    (hpc = "returned" /\ AcceptedChoice) =>
        /\ SameElements(groups, Stripped(SelectedEntries))
        /\ SameElements(hosts, Bare(SelectedEntries))
        /\ InOrder(groups)
        /\ InOrder(hosts)

\* C5: a line with a number below 0 or above the number of options is asked
\* for again: the prompt neither fails nor returns for it.
C5_Validated ==
    /\ hpc # "IndexError"
    /\ hpc = "returned" => AcceptedChoice

\* C12: a selected token is a group, named by the token without its
\* brackets, exactly when it is wrapped in "[" and "]"; every other selected
\* token, one that begins with "[" and does not end with "]" included, is a
\* host and is in the hosts unchanged.
C12_GroupIffWrapped ==
    (hpc = "returned" /\ AcceptedChoice) =>
        /\ SameElements(groups, Stripped(SelectedEntries))
        /\ SameElements(hosts, Bare(SelectedEntries))

\* C13: with an inventory of at least one entry the selection is never empty:
\* groups + hosts, the value of --limit, has at least one name.
C13_SelectionNotEmpty ==
    (hpc = "returned" /\ ansible_hosts_entries # <<>>) => groups \o hosts # <<>>

\* ------------------------------------------------------------------------
\* Properties of the run
\* ------------------------------------------------------------------------
\* C9: a run ends in one of four ways: declined at Proceed with status 0, the
\* tool's own return code, 1 when the launch raised, 130 when interrupted.
C9_ExitStatus ==
    pc = "exited" =>
        \/ ending = "declined" /\ exitCode = 0 /\ ~launched
        \/ ending = "ran" /\ exitCode \in ReturnCodes /\ launched
        \/ ending = "launch_failed" /\ exitCode = 1
        \/ ending = "interrupted" /\ exitCode = 130

\* C14: with a directory argument that does not exist, and with one under
\* which there is no *.yml document, a run whose operator does not interrupt
\* gets past the playbook selection and reaches the Proceed prompt.
C14_ReachesProceed ==
    path_to_playbooks # "valid" => <>(pc = "ask_proceed" \/ interruptedAt # Null)

\* the positions inside check_hosts_file
CheckPcs ==
    {"check_hosts_file", "enter_location_missing", "ask_correct", "enter_location_wrong"}

\* C17: the path check_hosts_file returns is an existing file: a location
\* entered by the operator is left only when it names a file, and the y at
\* 'Is that correct' returns a path that was found to be a file.
C17_ReturnsExistingFile ==
    /\ []((pc \notin CheckPcs /\ interruptedAt \notin CheckPcs)
            => ANSIBLE_HOSTS_LOCATION \in hfiles)
    /\ [][(pc \in {"enter_location_missing", "enter_location_wrong"}
            /\ pc' \notin {pc, "exited"}) => ansible_hosts_file' \in hfiles]_vars
    /\ [][(pc = "ask_correct" /\ pc' = "select_playbook")
            => (ansible_hosts_file \in hfiles
                /\ ANSIBLE_HOSTS_LOCATION' = ansible_hosts_file)]_vars
\* the default is no file and the operator's replacement is returned
C17_Witness ==
    /\ pc = "select_playbook"
    /\ DefaultHosts \notin hfiles
    /\ ANSIBLE_HOSTS_LOCATION = "inventory"

\* C18: the path named in the question 'Is that correct' is the path that a
\* y returns.
C18_QuestionNamesReturned ==
    pc = "ask_correct" => QuestionPath = ansible_hosts_file

\* C10: an interrupt at any prompt ends the run at once with status 130, and
\* the external process was never started in that run.
C10_InterruptAtPrompt ==
    interruptedAt \in PromptPcs =>
        /\ pc = "exited"
        /\ ending = "interrupted"
        /\ exitCode = 130
        /\ ~launched
\* the operator interrupts at the last prompt, Proceed, after defining a variable
C10_Witness ==
    /\ interruptedAt = "ask_proceed"
    /\ defined_variables # <<>>
    /\ exitCode = 130

\* ------------------------------------------------------------------------
\* Properties of the command assembly
\* ------------------------------------------------------------------------
\* the names of a list with ":" between them, built from its end
RECURSIVE ColonList(_)
ColonList(names) ==
    IF names = <<>> THEN <<>>
    ELSE IF Len(names) = 1 THEN names[1]
    ELSE ColonList(SubSeq(names, 1, Len(names) - 1)) \o <<":">> \o names[Len(names)]
Flag(given) == IF given THEN 1 ELSE 0

\* C11: the assembled command is the program name, the playbook path, the
\* two arguments --extra-vars and key=value for each binding in insertion
\* order, one --limit with the groups and then the hosts joined by ":",
\* --ask-pass exactly when the SSH question was answered y and then
\* --ask-become-pass exactly when the escalation question was; no process is
\* launched by the assembly.
C11_ExactCommand ==
    pc = "ask_proceed" =>
        LET n == Len(defined_variables)
        IN /\ Len(command) = 2 * n + 4 + Flag(answers.ssh) + Flag(answers.become)
           /\ command[1] = ProgramName
           /\ command[2] = PathStr(root)
           /\ \A i \in 1..n :
                 /\ command[2 * i + 1] = FlagExtraVars
                 /\ command[2 * i + 2] =
                       defined_variables[i][1] \o <<"=">> \o defined_variables[i][2]
           /\ command[2 * n + 3] = FlagLimit
           /\ command[2 * n + 4] = ColonList(groups \o hosts)
           /\ Count(FlagLimit, command) = 1
           /\ answers.ssh => command[2 * n + 5] = FlagAskPass
           /\ answers.become => command[Len(command)] = FlagAskBecomePass
           /\ ~launched
\* two bindings, a group and a host, the SSH password asked for and the
\* escalation password not
C11_Witness ==
    /\ pc = "ask_proceed"
    /\ Len(defined_variables) = 2
    /\ groups # <<>> /\ hosts # <<>>
    /\ answers.ssh /\ ~answers.become
    /\ Len(command) = 9

\* ------------------------------------------------------------------------
\* Properties of the prompting primitives
\* ------------------------------------------------------------------------
\* the entered line is a number that is a 1-based position of the list
EntryInList ==
    po_choice.kind = "int" /\ 1 <= po_choice.val /\ po_choice.val <= Len(po_options)
\* the entered line is one the prompt is meant to reject
EntryInvalid ==
    \/ po_choice.kind \in {"word", "blank"}
    \/ po_choice.kind = "empty" /\ ~po_allow_none
    \/ po_choice.kind = "int" /\ po_choice.val < 0
    \/ po_choice.kind = "int" /\ po_choice.val = 0 /\ ~po_propose_all
    \/ po_choice.kind = "int" /\ po_choice.val > Len(po_options)

\* C15: propose_options rejects a line that is no number, a negative number,
\* 0 when 'All' is not offered and a number above the number of options, and
\* asks again; it returns None only for an empty line when skipping is
\* allowed, and otherwise the option at the entered 1-based position; it does
\* so for every list, with and without 'All'.
C15_ValidOnly ==
    po_pc \in {"invalid", "none", "returned", "IndexError"} =>
        /\ po_pc # "IndexError"
        /\ EntryInvalid => po_pc = "invalid"
        /\ po_pc = "none" => (po_allow_none /\ po_choice.kind = "empty")
        /\ po_pc = "returned" => (EntryInList /\ po_return = po_options[po_choice.val])

\* ------------------------------------------------------------------------
\* Properties of the variable bindings
\* ------------------------------------------------------------------------
\* the rounds of the loop that are complete: a variable chosen, a value entered
Rounds ==
    IF entered # <<>> /\ (pc = "enter_value" \/ entered[Len(entered)].line.kind = "empty")
    THEN SubSeq(entered, 1, Len(entered) - 1)
    ELSE entered
RoundName(k) == variables[Rounds[k].line.val]
\* the names chosen, each once, in the order in which they were chosen first
ChosenFirst ==
    LET first == { k \in 1..Len(Rounds) : \A j \in 1..(k - 1) : RoundName(j) # RoundName(k) }
    IN [i \in 1..Cardinality(first) |->
           RoundName(CHOOSE k \in first : Cardinality({ j \in first : j <= k }) = i)]
\* the value entered the last time the name was chosen
LastValue(name) ==
    LET last == CHOOSE k \in 1..Len(Rounds) :
                    /\ RoundName(k) = name
                    /\ \A j \in (k + 1)..Len(Rounds) : RoundName(j) # name
    IN Rounds[last].value

\* C16: in define_variables_values the mapping holds one binding for each
\* name chosen so far, all of them offered names, in the order in which the
\* names were chosen first, each with the value entered the last time it was
\* chosen; the loop has ended exactly when the line accepted last is empty;
\* without a y to 'Want to define variables' the mapping is empty.
C16_Bindings ==
    pc \in {"choose_variable", "enter_value", "ask_ssh"} =>
        /\ Len(defined_variables) = Len(ChosenFirst)
        /\ \A i \in 1..Len(defined_variables) :
              /\ defined_variables[i][1] = ChosenFirst[i]
              /\ defined_variables[i][1] \in Range(variables)
              /\ defined_variables[i][2] = LastValue(ChosenFirst[i])
        /\ (pc = "ask_ssh" /\ answers.define) <=>
              (entered # <<>> /\ entered[Len(entered)].line.kind = "empty")
        /\ ~answers.define => defined_variables = <<>>
\* a is bound to 1, b is bound, a is bound again to 2, and Enter ends the loop
C16_Witness ==
    /\ pc = "ask_ssh"
    /\ Len(entered) = 4
    /\ entered[1].line.val = 1 /\ entered[1].value = <<"1">>
    /\ entered[2].line.val = 2
    /\ entered[3].line.val = 1 /\ entered[3].value = <<"2">>
    /\ defined_variables[1] = << <<"a">>, <<"2">> >>
    /\ Len(defined_variables) = 2
====
